---- MODULE Spec2Model ----
(***************************************************************************)
(* RunGreatExpectationsValidation.run                                      *)
(* (src/src/prefect/tasks/great_expectations/checkpoints.py).              *)
(*                                                                         *)
(* One call of run is modelled statement by statement.  The values of the  *)
(* parameters are the values run's body sees, i.e. after the               *)
(* defaults_from_attrs decorator has filled in the task attributes.  The   *)
(* Great Expectations engine and the artifact backend are outside the      *)
(* repository: every call made to them is appended to `trace`, with its    *)
(* arguments, and the values they hand back (the checkpoint definition,    *)
(* the success flag of the validation result) are chosen                   *)
(* nondeterministically.  Engine calls are taken to return; an exception   *)
(* raised inside the engine is not a step of run.                          *)
(***************************************************************************)
EXTENDS Integers, Sequences, FiniteSets, TLC

\* Bounds of the checkpoint definitions the engine may hand back.
MaxEntries == 2
MaxSuites == 2

(***************************************************************************)
(* Python values.  Every value is a record tagged with its type, so that   *)
(* truthiness is computed as Python computes it.                           *)
(***************************************************************************)
None == [t |-> "none"]
Str(s) == [t |-> "str", v |-> s]
Bool(b) == [t |-> "bool", v |-> b]
Dict(items) == [t |-> "dict", v |-> items]
List(seq) == [t |-> "list", v |-> seq]

\* bool(x)
Truthy(x) ==
  CASE x.t = "none" -> FALSE
    [] x.t = "str" -> x.v # ""
    [] x.t = "bool" -> x.v
    [] x.t = "dict" -> x.v # {}
    [] x.t = "list" -> Len(x.v) > 0
    [] OTHER -> TRUE

\* a and b
PyAnd(a, b) == IF Truthy(a) THEN b ELSE a

\* a or b
PyOr(a, b) == IF Truthy(a) THEN a ELSE b

\* sum(bool(x) for x in xs)
RECURSIVE SumBool(_)
SumBool(xs) ==
  IF xs = <<>> THEN 0
  ELSE (IF Truthy(Head(xs)) THEN 1 ELSE 0) + SumBool(Tail(xs))

(***************************************************************************)
(* Objects of the engine.                                                  *)
(***************************************************************************)
DataContextHandle == [t |-> "DataContext", origin |-> "caller"]
DataContextBuilt == [t |-> "DataContext", origin |-> "constructed"]

\* context.get_expectation_suite(suite_name)
GetExpectationSuite(suite_name) == [t |-> "suite", name |-> suite_name]

\* context.get_batch(batch_kwargs, suite)
GetBatch(kwargs, suite) == [t |-> "batch", batch_kwargs |-> kwargs, suite |-> suite]

\* The names of the suites of a checkpoint: entry e, position j.
SuiteNameTable ==
  << <<"s11", "s12", "s13", "s14">>,
     <<"s21", "s22", "s23", "s24">>,
     <<"s31", "s32", "s33", "s34">>,
     <<"s41", "s42", "s43", "s44">> >>

CheckpointEntry(e, k) ==
  [batch_kwargs |-> Dict({<<"path", e>>}),
   expectation_suite_names |-> [j \in 1..k |-> Str(SuiteNameTable[e][j])]]

CheckpointOperators == {"action_list_operator", "checkpoint_operator"}

\* The checkpoint definitions context.get_checkpoint may return: up to
\* MaxEntries batch entries, each with its own batch_kwargs and up to
\* MaxSuites suite names.
Checkpoints ==
  UNION { { [batches |-> [e \in 1..n |-> CheckpointEntry(e, ks[e])],
             validation_operator_name |-> Str(op)] :
              ks \in [1..n -> 0..MaxSuites], op \in CheckpointOperators } :
          n \in 0..MaxEntries }

(***************************************************************************)
(* The calls of run.                                                       *)
(***************************************************************************)
DefaultValidationOperator == Str("action_list_operator")

CallerAsset == [t |-> "batch", batch_kwargs |-> Dict({<<"path", 0>>}), suite |-> Str("caller_suite")]

Calls ==
  [checkpoint_name : {None, Str(""), Str("my_checkpoint")},
   context : {None, DataContextHandle},
   assets_to_validate : {None, List(<<>>), List(<<CallerAsset>>)},
   batch_kwargs : {None, Dict({}), Dict({<<"path", 0>>})},
   expectation_suite_name : {None, Str(""), Str("my_suite")},
   context_root_dir : {None},
   runtime_environment : {None},
   run_name : {None, Str(""), Str("my_run")},
   run_info_at_end : {Bool(TRUE), Bool(FALSE)},
   disable_markdown_artifact : {Bool(FALSE), Bool(TRUE)},
   validation_operator : {DefaultValidationOperator, Str("my_operator")},
   evaluation_parameters : {None, Dict({<<"prev_run_row_count", 100>>})}]

\* prefect.context.get("task_slug")
TaskSlug == Str("my_task-1")

VARIABLES
  pc,                  \* the statement run is about to execute
  args,                \* the parameter values of the call
  context,             \* local variables of run that are rebound
  runtime_environment,
  assets_to_validate,
  batch_kwargs,
  validation_operator,
  run_info_at_end,
  ge_checkpoint,
  batches_i,           \* position of `for batch in ge_checkpoint["batches"]`
  batch,
  suite_names,         \* the list the inner for loop iterates
  suites_j,            \* position of the inner for loop
  results,
  trace,               \* calls made to the engine and the artifact backend
  outcome              \* how the call ended

vars == <<pc, args, context, runtime_environment, assets_to_validate,
          batch_kwargs, validation_operator, run_info_at_end, ge_checkpoint,
          batches_i, batch, suite_names, suites_j, results, trace, outcome>>

Init ==
  /\ args \in Calls
  /\ pc = "load_context"
  /\ context = args.context
  /\ runtime_environment = args.runtime_environment
  /\ assets_to_validate = args.assets_to_validate
  /\ batch_kwargs = args.batch_kwargs
  /\ validation_operator = args.validation_operator
  /\ run_info_at_end = args.run_info_at_end
  /\ ge_checkpoint = None
  /\ batches_i = 0
  /\ batch = None
  /\ suite_names = <<>>
  /\ suites_j = 0
  /\ results = None
  /\ trace = <<>>
  /\ outcome = [kind |-> "running"]

\* lines 211-218: runtime_environment = runtime_environment or dict();
\* if not context: context = ge.DataContext(...)
LoadContext ==
  /\ pc = "load_context"
  /\ runtime_environment' = PyOr(runtime_environment, Dict({}))
  /\ IF ~Truthy(context)
       THEN /\ context' = DataContextBuilt
            /\ trace' = Append(trace,
                 [op |-> "DataContext",
                  context_root_dir |-> args.context_root_dir,
                  runtime_environment |-> runtime_environment'])
       ELSE UNCHANGED <<context, trace>>
  /\ pc' = "check"
  /\ UNCHANGED <<args, assets_to_validate, batch_kwargs, validation_operator,
                 run_info_at_end, ge_checkpoint, batches_i, batch, suite_names,
                 suites_j, results, outcome>>

\* lines 222-229: the number of input modes supplied
NumSuppliedSuiteOnly(suite_name, kwargs, assets, checkpoint) ==
  SumBool(<<suite_name, assets, checkpoint>>)

NumSupplied(suite_name, kwargs, assets, checkpoint) ==
  SumBool(<<PyAnd(suite_name, kwargs), assets, checkpoint>>)

\* lines 220-235: the parameters are mutually exclusive
CheckExclusive ==
  /\ pc = "check"
  /\ IF NumSupplied(args.expectation_suite_name, batch_kwargs,
                    assets_to_validate, args.checkpoint_name) # 1
       THEN /\ outcome' = [kind |-> "ValueError"]
            /\ pc' = "done"
       ELSE /\ pc' = "resolve"
            /\ UNCHANGED outcome
  /\ UNCHANGED <<args, context, runtime_environment, assets_to_validate,
                 batch_kwargs, validation_operator, run_info_at_end,
                 ge_checkpoint, batches_i, batch, suite_names, suites_j,
                 results, trace>>

\* line 241, condition false: the caller's assets are used as they are
UseAssets ==
  /\ pc = "resolve"
  /\ Truthy(assets_to_validate)
  /\ pc' = "run_operator"
  /\ UNCHANGED <<args, context, runtime_environment, assets_to_validate,
                 batch_kwargs, validation_operator, run_info_at_end,
                 ge_checkpoint, batches_i, batch, suite_names, suites_j,
                 results, trace, outcome>>

\* lines 241-244: assets_to_validate = []; context.get_checkpoint(checkpoint_name)
LoadCheckpoint ==
  /\ pc = "resolve"
  /\ ~Truthy(assets_to_validate)
  /\ Truthy(args.checkpoint_name)
  /\ assets_to_validate' = List(<<>>)
  /\ \E cp \in Checkpoints : ge_checkpoint' = cp
  /\ trace' = Append(trace, [op |-> "get_checkpoint", name |-> args.checkpoint_name])
  /\ batches_i' = 1
  /\ pc' = "outer"
  /\ UNCHANGED <<args, context, runtime_environment, batch_kwargs,
                 validation_operator, run_info_at_end, batch, suite_names,
                 suites_j, results, outcome>>

\* lines 246-248: one step of `for batch in ge_checkpoint["batches"]`
OuterLoop ==
  /\ pc = "outer"
  /\ batches_i <= Len(ge_checkpoint.batches)
  /\ batch' = ge_checkpoint.batches[batches_i]
  /\ batch_kwargs' = batch'.batch_kwargs
  /\ suite_names' = batch'.expectation_suite_names
  /\ suites_j' = 1
  /\ pc' = "inner"
  /\ UNCHANGED <<args, context, runtime_environment, assets_to_validate,
                 validation_operator, run_info_at_end, ge_checkpoint,
                 batches_i, results, trace, outcome>>

\* lines 248-251 with get_batch given the first entry's batch_kwargs
InnerLoopFirstKwargs ==
  /\ pc = "inner"
  /\ IF suites_j <= Len(suite_names)
       THEN LET suite == GetExpectationSuite(suite_names[suites_j])
                first == ge_checkpoint.batches[1].batch_kwargs
            IN /\ batch' = GetBatch(first, suite)
               /\ assets_to_validate' = List(Append(assets_to_validate.v, batch'))
               /\ trace' = trace \o
                    << [op |-> "get_expectation_suite", name |-> suite_names[suites_j]],
                       [op |-> "get_batch", batch_kwargs |-> first, suite |-> suite] >>
               /\ suites_j' = suites_j + 1
               /\ UNCHANGED <<batches_i, pc>>
       ELSE /\ batches_i' = batches_i + 1
            /\ pc' = "outer"
            /\ UNCHANGED <<batch, assets_to_validate, trace, suites_j>>
  /\ UNCHANGED <<args, context, runtime_environment, batch_kwargs,
                 validation_operator, run_info_at_end, ge_checkpoint,
                 suite_names, results, outcome>>

\* lines 248-251: one step of `for suite_name in batch["expectation_suite_names"]`;
\* the body rebinds `batch`, the list being iterated was taken before
InnerLoop ==
  /\ pc = "inner"
  /\ IF suites_j <= Len(suite_names)
       THEN LET suite == GetExpectationSuite(suite_names[suites_j])
            IN /\ batch' = GetBatch(batch_kwargs, suite)
               /\ assets_to_validate' = List(Append(assets_to_validate.v, batch'))
               /\ trace' = trace \o
                    << [op |-> "get_expectation_suite", name |-> suite_names[suites_j]],
                       [op |-> "get_batch", batch_kwargs |-> batch_kwargs, suite |-> suite] >>
               /\ suites_j' = suites_j + 1
               /\ UNCHANGED <<batches_i, pc>>
       ELSE /\ batches_i' = batches_i + 1
            /\ pc' = "outer"
            /\ UNCHANGED <<batch, assets_to_validate, trace, suites_j>>
  /\ UNCHANGED <<args, context, runtime_environment, batch_kwargs,
                 validation_operator, run_info_at_end, ge_checkpoint,
                 suite_names, results, outcome>>

\* line 252 skipped: the caller's operator is kept
KeepCallerOperator ==
  /\ pc = "outer"
  /\ batches_i > Len(ge_checkpoint.batches)
  /\ pc' = "run_operator"
  /\ UNCHANGED <<args, context, runtime_environment, assets_to_validate,
                 batch_kwargs, validation_operator, run_info_at_end,
                 ge_checkpoint, batches_i, batch, suite_names, suites_j,
                 results, trace, outcome>>

\* line 252: validation_operator = ge_checkpoint["validation_operator_name"]
UseCheckpointOperator ==
  /\ pc = "outer"
  /\ batches_i > Len(ge_checkpoint.batches)
  /\ validation_operator' = ge_checkpoint.validation_operator_name
  /\ pc' = "run_operator"
  /\ UNCHANGED <<args, context, runtime_environment, assets_to_validate,
                 batch_kwargs, run_info_at_end, ge_checkpoint, batches_i,
                 batch, suite_names, suites_j, results, trace, outcome>>

\* lines 241-242, 253-256: assets_to_validate = [get_batch(batch_kwargs, expectation_suite_name)]
LoadSingleBatch ==
  /\ pc = "resolve"
  /\ ~Truthy(assets_to_validate)
  /\ ~Truthy(args.checkpoint_name)
  /\ assets_to_validate' =
       List(<<GetBatch(batch_kwargs, args.expectation_suite_name)>>)
  /\ trace' = Append(trace, [op |-> "get_batch", batch_kwargs |-> batch_kwargs,
                             suite |-> args.expectation_suite_name])
  /\ pc' = "run_operator"
  /\ UNCHANGED <<args, context, runtime_environment, batch_kwargs,
                 validation_operator, run_info_at_end, ge_checkpoint,
                 batches_i, batch, suite_names, suites_j, results, outcome>>

\* line 262 with the operands of `or` exchanged
RunIdSlugFirst(run_name, task_slug) == [run_name |-> PyOr(task_slug, run_name)]

\* line 262: run_id={"run_name": run_name or prefect.context.get("task_slug")}
RunId(run_name, task_slug) == [run_name |-> PyOr(run_name, task_slug)]

\* lines 258-264 followed by the raise of line 288 when the result failed
RunValidationOperatorRaiseFirst ==
  /\ pc = "run_operator"
  /\ \E success \in BOOLEAN :
       /\ results' = [t |-> "result", oid |-> 1, success |-> success]
       /\ pc' = IF success THEN "artifact" ELSE "outcome"
  /\ trace' = Append(trace,
       [op |-> "run_validation_operator",
        validation_operator |-> validation_operator,
        assets_to_validate |-> assets_to_validate,
        run_id |-> RunId(args.run_name, TaskSlug),
        evaluation_parameters |-> args.evaluation_parameters,
        returned |-> results'])
  /\ UNCHANGED <<args, context, runtime_environment, assets_to_validate,
                 batch_kwargs, validation_operator, run_info_at_end,
                 ge_checkpoint, batches_i, batch, suite_names, suites_j,
                 outcome>>

\* lines 258-264: results = context.run_validation_operator(...)
RunValidationOperator ==
  /\ pc = "run_operator"
  /\ \E success \in BOOLEAN :
       results' = [t |-> "result", oid |-> 1, success |-> success]
  /\ trace' = Append(trace,
       [op |-> "run_validation_operator",
        validation_operator |-> validation_operator,
        assets_to_validate |-> assets_to_validate,
        run_id |-> RunId(args.run_name, TaskSlug),
        evaluation_parameters |-> args.evaluation_parameters,
        returned |-> results'])
  /\ pc' = "artifact"
  /\ UNCHANGED <<args, context, runtime_environment, assets_to_validate,
                 batch_kwargs, validation_operator, run_info_at_end,
                 ge_checkpoint, batches_i, batch, suite_names, suites_j,
                 outcome>>

\* lines 269-283: the markdown rendered from a result by a results-page
\* renderer configured with info_at_end
RenderMarkdown(result, info_at_end) ==
  [t |-> "markdown", of |-> result, run_info_at_end |-> info_at_end]

\* lines 268-285 executed whatever disable_markdown_artifact is
PublishArtifactAlways ==
  /\ pc = "artifact"
  /\ run_info_at_end' = Bool(TRUE)
  /\ trace' = trace \o
       << [op |-> "render_validation_operator_result",
           run_info_at_end |-> run_info_at_end',
           validation_operator_result |-> results],
          [op |-> "create_markdown_artifact",
           markdown |-> RenderMarkdown(results, run_info_at_end')] >>
  /\ pc' = "outcome"
  /\ UNCHANGED <<args, context, runtime_environment, assets_to_validate,
                 batch_kwargs, validation_operator, ge_checkpoint, batches_i,
                 batch, suite_names, suites_j, results, outcome>>

\* lines 266-285: if not disable_markdown_artifact: run_info_at_end = True;
\* render the result; create_markdown_artifact(markdown_artifact)
PublishArtifact ==
  /\ pc = "artifact"
  /\ IF ~Truthy(args.disable_markdown_artifact)
       THEN /\ run_info_at_end' = Bool(TRUE)
            /\ trace' = trace \o
                 << [op |-> "render_validation_operator_result",
                     run_info_at_end |-> run_info_at_end',
                     validation_operator_result |-> results],
                    [op |-> "create_markdown_artifact",
                     markdown |-> RenderMarkdown(results, run_info_at_end')] >>
       ELSE UNCHANGED <<run_info_at_end, trace>>
  /\ pc' = "outcome"
  /\ UNCHANGED <<args, context, runtime_environment, assets_to_validate,
                 batch_kwargs, validation_operator, ge_checkpoint, batches_i,
                 batch, suite_names, suites_j, results, outcome>>

\* line 290 alone: the result is returned whatever its success flag
OutcomeNeverRaises ==
  /\ pc = "outcome"
  /\ outcome' = [kind |-> "return", value |-> results]
  /\ pc' = "done"
  /\ UNCHANGED <<args, context, runtime_environment, assets_to_validate,
                 batch_kwargs, validation_operator, run_info_at_end,
                 ge_checkpoint, batches_i, batch, suite_names, suites_j,
                 results, trace>>

\* lines 287-290 returning a copy of the result
OutcomeReturnsCopy ==
  /\ pc = "outcome"
  /\ IF results.success = FALSE
       THEN outcome' = [kind |-> "FAIL", result |-> results]
       ELSE outcome' = [kind |-> "return",
                        value |-> [results EXCEPT !.oid = results.oid + 1]]
  /\ pc' = "done"
  /\ UNCHANGED <<args, context, runtime_environment, assets_to_validate,
                 batch_kwargs, validation_operator, run_info_at_end,
                 ge_checkpoint, batches_i, batch, suite_names, suites_j,
                 results, trace>>

\* lines 287-290: if results.success is False: raise signals.FAIL(result=results);
\* return results
Outcome ==
  /\ pc = "outcome"
  /\ IF results.success = FALSE
       THEN outcome' = [kind |-> "FAIL", result |-> results]
       ELSE outcome' = [kind |-> "return", value |-> results]
  /\ pc' = "done"
  /\ UNCHANGED <<args, context, runtime_environment, assets_to_validate,
                 batch_kwargs, validation_operator, run_info_at_end,
                 ge_checkpoint, batches_i, batch, suite_names, suites_j,
                 results, trace>>

Next ==
  \/ LoadContext
  \/ CheckExclusive
  \/ UseAssets
  \/ LoadCheckpoint
  \/ OuterLoop
  \/ InnerLoop
  \/ UseCheckpointOperator
  \/ LoadSingleBatch
  \/ RunValidationOperator
  \/ PublishArtifact
  \/ Outcome

Spec == Init /\ [][Next]_vars

(***************************************************************************)
(* Properties.                                                             *)
(***************************************************************************)
Ops == [i \in 1..Len(trace) |-> trace[i].op]

Positions(op) == {i \in 1..Len(trace) : trace[i].op = op}

OperatorCalls == {trace[i] : i \in Positions("run_validation_operator")}

EngineOps ==
  {"DataContext", "get_checkpoint", "get_expectation_suite", "get_batch",
   "run_validation_operator"}

ResolutionOps ==
  {"DataContext", "get_checkpoint", "get_expectation_suite", "get_batch"}

ArtifactOps == {"render_validation_operator_result", "create_markdown_artifact"}

\* The input modes the caller supplied.
SuiteAndBatchSupplied ==
  Truthy(args.expectation_suite_name) /\ Truthy(args.batch_kwargs)
AssetsSupplied == Truthy(args.assets_to_validate)
CheckpointSupplied == Truthy(args.checkpoint_name)

SuppliedModes ==
  {m \in {"suite_and_batch", "assets", "checkpoint"} :
     \/ m = "suite_and_batch" /\ SuiteAndBatchSupplied
     \/ m = "assets" /\ AssetsSupplied
     \/ m = "checkpoint" /\ CheckpointSupplied}

Accepted == Cardinality(SuppliedModes) = 1

\* C1: run raises ValueError if and only if the number of supplied input
\* modes is not exactly 1 (mode (a) counts only when both
\* expectation_suite_name and batch_kwargs are truthy); with exactly one mode
\* the call goes on, without getting stuck, to exactly one
\* run_validation_operator.
C1_ValueErrorIffNotOneMode ==
  /\ pc \in {"load_context", "check"} => outcome.kind = "running"
  /\ pc \notin {"load_context", "check"} =>
       ((outcome.kind = "ValueError") <=> ~Accepted)
  /\ (Accepted /\ pc # "done") => ENABLED Next
  /\ (Accepted /\ pc \in {"artifact", "outcome", "done"}) =>
       Cardinality(Positions("run_validation_operator")) = 1
  /\ ~Accepted => Positions("run_validation_operator") = {}

C1_Witness ==
  /\ pc = "done"
  /\ outcome.kind = "return"
  /\ Truthy(args.expectation_suite_name)
  /\ ~Truthy(args.batch_kwargs)
  /\ CheckpointSupplied
  /\ Cardinality(Positions("run_validation_operator")) = 1

\* C2: when the configuration error is raised, no operation of the engine
\* has been invoked in the call and no artifact has been published, whether
\* or not a context handle was passed.
C2_RejectedBeforeEngine ==
  outcome.kind = "ValueError" =>
    \A i \in 1..Len(trace) : trace[i].op \notin EngineOps \cup ArtifactOps

\* The batches a checkpoint declares: one per (entry, suite name) pairing, in
\* declaration order, each from get_batch with the entry's own batch_kwargs.
RECURSIVE SuitesOf(_, _)
SuitesOf(kwargs, names) ==
  IF names = <<>> THEN <<>>
  ELSE <<GetBatch(kwargs, GetExpectationSuite(Head(names)))>>
         \o SuitesOf(kwargs, Tail(names))

RECURSIVE DeclaredBatches(_)
DeclaredBatches(entries) ==
  IF entries = <<>> THEN <<>>
  ELSE SuitesOf(Head(entries).batch_kwargs, Head(entries).expectation_suite_names)
         \o DeclaredBatches(Tail(entries))

RECURSIVE DeclaredPairings(_)
DeclaredPairings(entries) ==
  IF entries = <<>> THEN 0
  ELSE Len(Head(entries).expectation_suite_names) + DeclaredPairings(Tail(entries))

\* C3: in checkpoint mode the asset list passed to run_validation_operator
\* holds exactly one batch per (batch entry, suite name) pairing of the
\* checkpoint, in declaration order, each obtained from get_batch with that
\* entry's own batch_kwargs and that suite.
C3_CheckpointExpansion ==
  \A c \in OperatorCalls :
    CheckpointSupplied =>
      /\ c.assets_to_validate = List(DeclaredBatches(ge_checkpoint.batches))
      /\ Len(c.assets_to_validate.v) = DeclaredPairings(ge_checkpoint.batches)

C3_Witness ==
  /\ OperatorCalls # {}
  /\ CheckpointSupplied
  /\ Len(ge_checkpoint.batches) >= 2
  /\ Len(ge_checkpoint.batches[1].expectation_suite_names) >= 2
  /\ Len(ge_checkpoint.batches[2].expectation_suite_names) >= 1

\* C4: the operator name passed to run_validation_operator is the
\* checkpoint's validation_operator_name in checkpoint mode, whatever the
\* validation_operator of the caller, and the caller's validation_operator
\* in the two other modes.
C4_OperatorName ==
  \A c \in OperatorCalls :
    IF CheckpointSupplied
      THEN c.validation_operator = ge_checkpoint.validation_operator_name
      ELSE c.validation_operator = args.validation_operator

C4_Witness ==
  /\ OperatorCalls # {}
  /\ CheckpointSupplied
  /\ args.validation_operator = Str("my_operator")
  /\ ge_checkpoint.validation_operator_name = Str("checkpoint_operator")

\* C5: when run_validation_operator returned a result whose success is
\* False, run raises signals.FAIL carrying exactly that result and returns
\* no value.
C5_FailCarriesResult ==
  \A c \in OperatorCalls :
    c.returned.success = FALSE =>
      /\ outcome.kind \in {"running", "FAIL"}
      /\ pc = "done" => outcome = [kind |-> "FAIL", result |-> c.returned]

C5_Witness ==
  /\ pc = "done"
  /\ outcome.kind = "FAIL"
  /\ AssetsSupplied
  /\ Truthy(args.disable_markdown_artifact)

\* C6: when run_validation_operator returned a successful result, run
\* returns exactly that object and raises nothing.
C6_SuccessReturnsResult ==
  \A c \in OperatorCalls :
    c.returned.success = TRUE =>
      /\ outcome.kind \in {"running", "return"}
      /\ pc = "done" => outcome = [kind |-> "return", value |-> c.returned]

C6_Witness ==
  /\ pc = "done"
  /\ outcome.kind = "return"
  /\ SuiteAndBatchSupplied
  /\ ~Truthy(args.disable_markdown_artifact)

\* C7: when disable_markdown_artifact is true, nothing is rendered and
\* create_markdown_artifact is never called, whatever the mode and outcome.
C7_DisabledPublishesNothing ==
  Truthy(args.disable_markdown_artifact) =>
    \A i \in 1..Len(trace) : trace[i].op \notin ArtifactOps

C7_Witness ==
  /\ pc = "done"
  /\ outcome.kind = "FAIL"
  /\ CheckpointSupplied
  /\ Truthy(args.disable_markdown_artifact)
  /\ trace # <<>>

\* C8: the results-page renderer is configured with the run_info_at_end
\* value supplied by the caller.
C8_RunInfoHonoured ==
  \A i \in Positions("render_validation_operator_result") :
    trace[i].run_info_at_end = args.run_info_at_end

\* C9: the run identifier passed to run_validation_operator is the
\* caller's run_name whenever one is provided (is not None), the task slug
\* only when none is provided; evaluation_parameters are passed verbatim.
C9_RunNameWheneverProvided ==
  \A c \in OperatorCalls :
    /\ args.run_name # None => c.run_id = [run_name |-> args.run_name]
    /\ args.run_name = None => c.run_id = [run_name |-> TaskSlug]
    /\ c.evaluation_parameters = args.evaluation_parameters

\* C9 (amended): the run identifier is the caller's run_name whenever it is
\* truthy (neither None nor the empty string), and the task slug otherwise;
\* evaluation_parameters are passed verbatim.
C9_RunNameWhenTruthy ==
  \A c \in OperatorCalls :
    /\ (args.run_name # None /\ args.run_name # Str("")) =>
         c.run_id = [run_name |-> args.run_name]
    /\ (args.run_name = None \/ args.run_name = Str("")) =>
         c.run_id = [run_name |-> TaskSlug]
    /\ c.evaluation_parameters = args.evaluation_parameters

C9_Witness ==
  /\ args.run_name = Str("")
  /\ args.evaluation_parameters # None
  /\ \E c \in OperatorCalls : c.run_id = [run_name |-> TaskSlug]

\* C10: in an accepted call with artifact rendering enabled the calls come
\* in the order: batch resolution, one run_validation_operator, one
\* create_markdown_artifact, and only then the outcome (return or FAIL);
\* run_validation_operator is never called twice.
C10_CallOrder ==
  /\ Cardinality(Positions("run_validation_operator")) <= 1
  /\ \A i \in Positions("run_validation_operator") :
       /\ \A j \in 1..(i - 1) : Ops[j] \in ResolutionOps
       /\ \A j \in (i + 1)..Len(trace) : Ops[j] \in ArtifactOps
  /\ (Accepted /\ ~Truthy(args.disable_markdown_artifact)) =>
       /\ outcome.kind # "running" =>
            /\ outcome.kind \in {"return", "FAIL"}
            /\ Cardinality(Positions("run_validation_operator")) = 1
            /\ Cardinality(Positions("create_markdown_artifact")) = 1
            /\ Ops[Len(trace)] = "create_markdown_artifact"
            /\ trace[Len(trace)].markdown.of = results
       /\ Cardinality(Positions("create_markdown_artifact")) <= 1

C10_Witness ==
  /\ outcome.kind = "FAIL"
  /\ ~Truthy(args.disable_markdown_artifact)
  /\ CheckpointSupplied
  /\ Cardinality(Positions("get_batch")) >= 2
  /\ Ops[Len(trace)] = "create_markdown_artifact"

====
